---------------------------- MODULE Spec2Model ----------------------------
(***************************************************************************)
(* A model of labeler.py: the TimelineWidget (segment store, selection,    *)
(* pointer handling) and the VideoAnnotator handlers that drive it (IN/OUT *)
(* marking, numeric edits, action selection, project save and load, time   *)
(* code conversion).                                                       *)
(*                                                                         *)
(* Conventions.  Python strings are sequences of one-character strings, so *)
(* that strip, startswith, split and the time code conversions are         *)
(* computed, not assumed.  Python's None is the value None (-1): every     *)
(* time, index and position of the model is >= 0.  List indices are the    *)
(* program's (0-based): segment i of the program is segments[i + 1].       *)
(***************************************************************************)
EXTENDS Integers, Sequences, FiniteSets, TLC

None == -1

Max(a, b) == IF a >= b THEN a ELSE b
Min(a, b) == IF a <= b THEN a ELSE b

(***************************************************************************)
(* Strings                                                                 *)
(***************************************************************************)
DigitChars == <<"0", "1", "2", "3", "4", "5", "6", "7", "8", "9">>

IsDigit(c) == \E i \in 1..10 : DigitChars[i] = c

DigitVal(c) == (CHOOSE i \in 1..10 : DigitChars[i] = c) - 1

IsSpace(c) == c \in {" ", "\t", "\n", "\r"}

IsDigits(s) == Len(s) > 0 /\ \A i \in 1..Len(s) : IsDigit(s[i])

RECURSIVE lstrip(_)
lstrip(s) ==
    IF Len(s) > 0 /\ IsSpace(s[1]) THEN lstrip(Tail(s)) ELSE s

RECURSIVE rstrip(_)
rstrip(s) ==
    IF Len(s) > 0 /\ IsSpace(s[Len(s)])
    THEN rstrip(SubSeq(s, 1, Len(s) - 1))
    ELSE s

\* str.strip()
strip(s) == rstrip(lstrip(s))

\* str.startswith(prefix)
startswith(s, prefix) ==
    Len(s) >= Len(prefix) /\ SubSeq(s, 1, Len(prefix)) = prefix

\* str.split(sep) for a one-character separator: always at least one part.
RECURSIVE split(_, _)
split(s, sep) ==
    IF \A i \in 1..Len(s) : s[i] # sep
    THEN <<s>>
    ELSE LET k == CHOOSE i \in 1..Len(s) :
                      s[i] = sep /\ \A j \in 1..(i - 1) : s[j] # sep
         IN  <<SubSeq(s, 1, k - 1)>> \o split(SubSeq(s, k + 1, Len(s)), sep)

\* The decimal digits of a natural number (as format() prints an int).
RECURSIVE Dec(_)
Dec(n) ==
    IF n < 10 THEN <<DigitChars[n + 1]>>
    ELSE Dec(n \div 10) \o <<DigitChars[(n % 10) + 1]>>

\* format(n, "0<w>d"): zero-padded to at least w digits, never cut.
RECURSIVE ZeroPad(_, _)
ZeroPad(s, w) == IF Len(s) >= w THEN s ELSE ZeroPad(<<"0">> \o s, w)

\* The value of a string of decimal digits.
RECURSIVE DigitsVal(_)
DigitsVal(s) ==
    IF Len(s) = 0 THEN 0
    ELSE 10 * DigitsVal(SubSeq(s, 1, Len(s) - 1)) + DigitVal(s[Len(s)])

RECURSIVE Pow10(_)
Pow10(k) == IF k = 0 THEN 1 ELSE 10 * Pow10(k - 1)

(***************************************************************************)
(* Time codes                                                              *)
(***************************************************************************)
\* A faulty ms_to_time_string, which prints the milliseconds without their
\* leading zeros.
ms_to_time_string_unpadded(position_ms) ==
    LET total_ms == position_ms
        hours    == total_ms \div 3600000
        minutes  == (total_ms % 3600000) \div 60000
        seconds  == (total_ms % 60000) \div 1000
        ms       == total_ms % 1000
    IN  ZeroPad(Dec(hours), 2) \o <<":">> \o ZeroPad(Dec(minutes), 2) \o <<":">>
            \o ZeroPad(Dec(seconds), 2) \o <<".">> \o Dec(ms)

\* A faulty ms_to_time_string, which wraps the hours at 24.
ms_to_time_string_wrapping(position_ms) ==
    LET total_ms == position_ms
        hours    == (total_ms \div 3600000) % 24
        minutes  == (total_ms % 3600000) \div 60000
        seconds  == (total_ms % 60000) \div 1000
        ms       == total_ms % 1000
    IN  ZeroPad(Dec(hours), 2) \o <<":">> \o ZeroPad(Dec(minutes), 2) \o <<":">>
            \o ZeroPad(Dec(seconds), 2) \o <<".">> \o ZeroPad(Dec(ms), 3)

\* VideoAnnotator.ms_to_time_string: "HH:MM:SS.mmm".
ms_to_time_string(position_ms) ==
    LET total_ms == position_ms
        hours    == total_ms \div 3600000
        minutes  == (total_ms % 3600000) \div 60000
        seconds  == (total_ms % 60000) \div 1000
        ms       == total_ms % 1000
    IN  ZeroPad(Dec(hours), 2) \o <<":">> \o ZeroPad(Dec(minutes), 2) \o <<":">>
            \o ZeroPad(Dec(seconds), 2) \o <<".">> \o ZeroPad(Dec(ms), 3)

\* int(text) succeeds: optional blanks around an optionally signed digit string.
IntOk(p) ==
    LET t == strip(p)
    IN  /\ Len(t) > 0
        /\ IF t[1] \in {"+", "-"} THEN IsDigits(Tail(t)) ELSE IsDigits(t)

IntVal(p) ==
    LET t == strip(p)
    IN  IF t[1] = "-" THEN 0 - DigitsVal(Tail(t))
        ELSE IF t[1] = "+" THEN DigitsVal(Tail(t))
        ELSE DigitsVal(t)

\* The length of the run of digits that starts at position i of s.
RECURSIVE DigitRun(_, _)
DigitRun(s, i) ==
    IF i <= Len(s) /\ IsDigit(s[i]) THEN 1 + DigitRun(s, i + 1) ELSE 0

\* re.search(r'(\d+(?:[.,]\d+)?)', sec_str): the first run of digits, with a
\* fraction when a '.' or ',' and at least one digit follow it.  The result is
\* <<found, integer digits, fraction digits>>.
SecondsMatch(sec_str) ==
    IF \A i \in 1..Len(sec_str) : ~IsDigit(sec_str[i])
    THEN <<FALSE, <<>>, <<>>>>
    ELSE LET b == CHOOSE i \in 1..Len(sec_str) :
                      IsDigit(sec_str[i]) /\ \A j \in 1..(i - 1) : ~IsDigit(sec_str[j])
             n == DigitRun(sec_str, b)
             e == b + n
             f == IF e <= Len(sec_str) /\ sec_str[e] \in {".", ","}
                  THEN DigitRun(sec_str, e + 1) ELSE 0
         IN  <<TRUE, SubSeq(sec_str, b, e - 1), SubSeq(sec_str, e + 1, e + f)>>

\* round(): to the nearest integer, a tie to the even one, of num / den >= 0.
RoundHalfEven(num, den) ==
    LET q == num \div den
        r == num % den
    IN  IF 2 * r < den THEN q
        ELSE IF 2 * r > den THEN q + 1
        ELSE IF q % 2 = 0 THEN q ELSE q + 1

\* VideoAnnotator.time_string_to_ms.  A ValueError of int() makes it return 0.
\* The float arithmetic is computed exactly (the products stay far below 2^53).
time_string_to_ms(time_str) ==
    LET s == strip(time_str)
        parts == split(s, ":")
        bad == \/ Len(parts) = 3 /\ (~IntOk(parts[1]) \/ ~IntOk(parts[2]))
               \/ Len(parts) = 2 /\ ~IntOk(parts[1])
        hours == IF Len(parts) = 3 THEN IntVal(parts[1]) ELSE 0
        minutes == IF Len(parts) = 3 THEN IntVal(parts[2])
                   ELSE IF Len(parts) = 2 THEN IntVal(parts[1]) ELSE 0
        sec_str == IF Len(parts) = 3 THEN parts[3]
                   ELSE IF Len(parts) = 2 THEN parts[2] ELSE parts[1]
        m == SecondsMatch(sec_str)
        whole == IF m[1] THEN DigitsVal(m[2]) ELSE 0
        frac == IF m[1] THEN m[3] ELSE <<>>
    IN  IF Len(s) = 0 THEN 0
        ELSE IF bad THEN 0
        ELSE (hours * 3600 + minutes * 60 + whole) * 1000
                 + RoundHalfEven(DigitsVal(frac) * 1000, Pow10(Len(frac)))

\* The exception raised inside the try block of time_string_to_ms: the
\* ValueError of int() on a field that is no integer, or none ("").
time_string_to_ms_error(time_str) ==
    LET s == strip(time_str)
        parts == split(s, ":")
    IN  IF Len(s) = 0 THEN ""
        ELSE IF Len(parts) = 3 /\ (~IntOk(parts[1]) \/ ~IntOk(parts[2]))
        THEN "ValueError"
        ELSE IF Len(parts) = 2 /\ ~IntOk(parts[1]) THEN "ValueError"
        ELSE ""

\* except (ValueError, IndexError): return 0
CaughtErrors == {"ValueError", "IndexError"}

\* time_string_to_ms raises: an exception of the try block gets past the
\* except clause.
time_string_to_ms_raises(time_str) ==
    time_string_to_ms_error(time_str) \notin (CaughtErrors \cup {""})

(***************************************************************************)
(* Segment                                                                 *)
(***************************************************************************)
Segment(start, end, action, color) ==
    [start |-> start, end |-> end, action |-> action, color |-> color]

\* A faulty overlaps_with, which takes segments that only touch as
\* overlapping.
overlaps_with_touching(self, other) ==
    ~(self.end < other.start \/ other.end < self.start)

\* Segment.overlaps_with
overlaps_with(self, other) ==
    ~(self.end <= other.start \/ other.end <= self.start)

\* Segment.contains for the position num / den (den > 0), a float in the code.
contains(self, num, den) ==
    self.start * den <= num /\ num <= self.end * den

(***************************************************************************)
(* The action catalog (VideoAnnotator.load_actions_from_csv)               *)
(***************************************************************************)
\* One-character tokens for U+1F4C1 (the folder sign) and U+2500 (the rule).
FolderChar == "U+1F4C1"
RuleChar == "U+2500"

RECURSIVE Repeat(_, _)
Repeat(c, n) == IF n = 0 THEN <<>> ELSE <<c>> \o Repeat(c, n - 1)

SeparatorLen == 20
SeparatorItem == Repeat(RuleChar, SeparatorLen)
HeaderItem(category) == <<FolderChar, " ">> \o category
TechniqueItem(technique) == <<" ", " ">> \o technique

DefaultColor == "#FF9999"

FallbackItems ==
    << <<"j", "u", "m", "p">>, <<"s", "p", "i", "n">>,
       <<"f", "o", "o", "t", "w", "o", "r", "k">>,
       <<"t", "r", "a", "n", "s", "i", "t", "i", "o", "n">> >>

FallbackColors ==
    (<<"j", "u", "m", "p">> :> "#FF9999")
        @@ (<<"s", "p", "i", "n">> :> "#99FF99")
        @@ (<<"f", "o", "o", "t", "w", "o", "r", "k">> :> "#9999FF")
        @@ (<<"t", "r", "a", "n", "s", "i", "t", "i", "o", "n">> :> "#FFFF99")

\* The combo items the loop over the rows adds; a row is
\* [category, technique, color].  current_category is NoCategory before the
\* first row (None in the code), which no category of a row equals.
NoCategory == <<"None">>

RECURSIVE catalog_items(_, _)
catalog_items(rows, current_category) ==
    IF Len(rows) = 0 THEN <<>>
    ELSE LET row == rows[1]
             head == IF row.category # current_category
                     THEN (IF current_category # NoCategory THEN <<SeparatorItem>> ELSE <<>>)
                              \o <<HeaderItem(row.category)>>
                     ELSE <<>>
         IN  head \o <<TechniqueItem(row.technique)>>
                 \o catalog_items(Tail(rows), row.category)

\* A faulty color table, in which the first row naming a technique wins.
RECURSIVE catalog_colors_first(_)
catalog_colors_first(rows) ==
    IF Len(rows) = 0 THEN <<>>
    ELSE (rows[1].technique :> rows[1].color) @@ catalog_colors_first(Tail(rows))

\* self.action_colors[technique] = color, a later row overriding an earlier one.
RECURSIVE catalog_colors(_)
catalog_colors(rows) ==
    IF Len(rows) = 0 THEN <<>>
    ELSE LET row == rows[Len(rows)]
         IN  (row.technique :> row.color)
                 @@ catalog_colors(SubSeq(rows, 1, Len(rows) - 1))

\* load_actions_from_csv: a catalog file is [exists, rows].
load_actions_items(catalog) ==
    IF catalog.exists THEN catalog_items(catalog.rows, NoCategory) ELSE FallbackItems

load_actions_colors(catalog) ==
    IF catalog.exists THEN catalog_colors(catalog.rows) ELSE FallbackColors

\* dict.get(key, default) on self.action_colors
color_for(colors, key) ==
    IF key \in DOMAIN colors THEN colors[key] ELSE DefaultColor

(***************************************************************************)
(* The program state.  A handler is an operator from a world (the record   *)
(* of all the fields below) to the world it leaves; the signals it emits   *)
(* call the connected slots before it goes on, as Qt's direct connections  *)
(* do.  trace is the log of the handler now running (its calls, the        *)
(* signals emitted, the positions requested of the player, each with the   *)
(* number of handlers then running), and depth that number.  Two fields    *)
(* the code writes and never reads before writing them again are left out: *)
(* TimelineWidget.drag_start_x and VideoAnnotator.out_time (set_out tests  *)
(* it against None right after assigning it the player's position).        *)
(***************************************************************************)
VARIABLES
    \* TimelineWidget
    duration, current_position, segments, selected_segment, in_marker,
    scroll_offset, dragging,
    PX_PER_SEC,          \* in tenths of a pixel per second (7.5 is 75)
    \* VideoAnnotator
    filename,            \* "" for None
    in_time, action_colors,
    action_combo_items, action_combo_index, action_combo_enabled,
    in_spin_value, in_spin_max, in_spin_enabled,
    out_spin_value, out_spin_max, out_spin_enabled,
    scrollbar_value, scrollbar_max,
    duration_hooks,      \* the on_duration_changed closures connected so far
    \* the media player, and the project file save_project wrote
    player_position, player_duration, csv_file,
    \* the log of the last handler
    trace,
    \* a conversion of a time code on its own: the argument of
    \* ms_to_time_string, the text made of it, and what time_string_to_ms
    \* made of the text (None and the empty text: not there yet)
    tc_position_ms, tc_time_str, tc_total_ms,
    tc_raised,           \* time_string_to_ms raised instead of returning
    actions_csv          \* the file actions.csv: [exists, rows]

vars ==
    <<tc_position_ms, tc_time_str, tc_total_ms, tc_raised, actions_csv,
      duration, current_position, segments, selected_segment, in_marker,
      scroll_offset, dragging, PX_PER_SEC, filename, in_time,
      action_colors, action_combo_items, action_combo_index,
      action_combo_enabled, in_spin_value, in_spin_max, in_spin_enabled,
      out_spin_value, out_spin_max, out_spin_enabled, scrollbar_value,
      scrollbar_max, duration_hooks, player_position, player_duration,
      csv_file, trace>>

World ==
    [duration |-> duration, current_position |-> current_position,
     segments |-> segments, selected_segment |-> selected_segment,
     in_marker |-> in_marker, scroll_offset |-> scroll_offset,
     dragging |-> dragging,
     PX_PER_SEC |-> PX_PER_SEC, filename |-> filename, in_time |-> in_time,
     action_colors |-> action_colors,
     action_combo_items |-> action_combo_items,
     action_combo_index |-> action_combo_index,
     action_combo_enabled |-> action_combo_enabled,
     in_spin_value |-> in_spin_value, in_spin_max |-> in_spin_max,
     in_spin_enabled |-> in_spin_enabled,
     out_spin_value |-> out_spin_value, out_spin_max |-> out_spin_max,
     out_spin_enabled |-> out_spin_enabled,
     scrollbar_value |-> scrollbar_value, scrollbar_max |-> scrollbar_max,
     duration_hooks |-> duration_hooks,
     player_position |-> player_position, player_duration |-> player_duration,
     csv_file |-> csv_file, trace |-> <<>>, depth |-> 0]

Commit(s) ==
    /\ duration' = s.duration
    /\ current_position' = s.current_position
    /\ segments' = s.segments
    /\ selected_segment' = s.selected_segment
    /\ in_marker' = s.in_marker
    /\ scroll_offset' = s.scroll_offset
    /\ dragging' = s.dragging
    /\ PX_PER_SEC' = s.PX_PER_SEC
    /\ filename' = s.filename
    /\ in_time' = s.in_time
    /\ action_colors' = s.action_colors
    /\ action_combo_items' = s.action_combo_items
    /\ action_combo_index' = s.action_combo_index
    /\ action_combo_enabled' = s.action_combo_enabled
    /\ in_spin_value' = s.in_spin_value
    /\ in_spin_max' = s.in_spin_max
    /\ in_spin_enabled' = s.in_spin_enabled
    /\ out_spin_value' = s.out_spin_value
    /\ out_spin_max' = s.out_spin_max
    /\ out_spin_enabled' = s.out_spin_enabled
    /\ scrollbar_value' = s.scrollbar_value
    /\ scrollbar_max' = s.scrollbar_max
    /\ duration_hooks' = s.duration_hooks
    /\ player_position' = s.player_position
    /\ player_duration' = s.player_duration
    /\ csv_file' = s.csv_file
    /\ trace' = s.trace
    /\ UNCHANGED <<tc_position_ms, tc_time_str, tc_total_ms, tc_raised, actions_csv>>

Log(s, ev, arg) ==
    [s EXCEPT !.trace = Append(@, [ev |-> ev, arg |-> arg, depth |-> s.depth])]

\* A handler (an event handler or a slot) starts: it is logged at its own depth.
Enter(s, name, arg) == Log([s EXCEPT !.depth = @ + 1], name, arg)

Leave(s) == [s EXCEPT !.depth = @ - 1]

(***************************************************************************)
(* The media player (QMediaPlayer), as the handlers use it                 *)
(***************************************************************************)
\* TimelineWidget.set_position
set_position(s, position) == [s EXCEPT !.current_position = position]

\* VideoAnnotator.update_timeline, the slot of player.positionChanged
update_timeline(s, pos) ==
    Leave(set_position(Enter(s, "update_timeline", pos), pos))

\* player.setPosition(position): without a medium the player is not seekable
\* and ignores it; with one it moves to the position, kept within the medium,
\* and reports the new position (positionChanged) when it changed.
player_setPosition(s, position) ==
    LET s1 == Log(s, "setPosition", position)
        p == Max(0, Min(position, s.player_duration))
    IN  IF s.player_duration = 0 \/ p = s.player_position THEN s1
        ELSE update_timeline([s1 EXCEPT !.player_position = p], p)

\* VideoAnnotator.seek, the slot of timeline.positionChanged
seek(s, position) ==
    Leave(player_setPosition(Enter(s, "seek", position), position))

(***************************************************************************)
(* TimelineWidget                                                          *)
(***************************************************************************)
MinWidth == 400

\* max(400, int(self.duration / 1000 * self.PX_PER_SEC))
total_width(s) == Max(MinWidth, (s.duration * s.PX_PER_SEC) \div 10000)

\* TimelineWidget.set_in_marker
set_in_marker(s, position) == [s EXCEPT !.in_marker = position]

\* TimelineWidget.set_scroll_offset
set_scroll_offset(s, offset) == [s EXCEPT !.scroll_offset = offset]

\* A faulty add_segment, which tests the new segment against the last
\* segment of the list only.
add_segment_returns_last(segs, new_segment) ==
    segs = <<>> \/ ~overlaps_with(new_segment, segs[Len(segs)])

\* The value add_segment returns: no segment of the list overlaps the new one.
add_segment_returns(segs, new_segment) ==
    \A i \in 1..Len(segs) : ~overlaps_with(new_segment, segs[i])

\* A faulty add_segment, which appends without testing for overlaps.
add_segment_unchecked(s, start, end, action, color) ==
    Log([s EXCEPT !.segments = Append(@, Segment(start, end, action, color))],
        "add_segment", 1)

\* A faulty add_segment, which keeps the list sorted by start time: the new
\* segment goes before the first segment that starts later.
add_segment_sorted(s, start, end, action, color) ==
    LET new_segment == Segment(start, end, action, color)
        later == {i \in 1..Len(s.segments) : s.segments[i].start > start}
        at == IF later = {} THEN Len(s.segments) + 1
              ELSE CHOOSE i \in later : \A j \in later : i <= j
    IN  IF add_segment_returns(s.segments, new_segment)
        THEN Log([s EXCEPT !.segments =
                      SubSeq(@, 1, at - 1) \o <<new_segment>>
                          \o SubSeq(@, at, Len(@))],
                 "add_segment", 1)
        ELSE Log(s, "add_segment", 0)

\* TimelineWidget.add_segment; the log keeps what it returned (1 for True).
add_segment(s, start, end, action, color) ==
    LET new_segment == Segment(start, end, action, color)
    IN  IF add_segment_returns(s.segments, new_segment)
        THEN Log([s EXCEPT !.segments = Append(@, new_segment)], "add_segment", 1)
        ELSE Log(s, "add_segment", 0)

\* del self.segments[index]
DeleteAt(segs, index) ==
    SubSeq(segs, 1, index) \o SubSeq(segs, index + 2, Len(segs))

\* A faulty remove_segment, which clears a selection at the index removed
\* and leaves any other selection as it is.
remove_segment_not_shifting(s, index) ==
    IF 0 <= index /\ index < Len(s.segments)
    THEN [s EXCEPT
            !.segments = DeleteAt(@, index),
            !.selected_segment = IF @ = index THEN None ELSE @]
    ELSE s

\* TimelineWidget.remove_segment
remove_segment(s, index) ==
    IF 0 <= index /\ index < Len(s.segments)
    THEN [s EXCEPT
            !.segments = DeleteAt(@, index),
            !.selected_segment =
                IF @ = index THEN None
                ELSE IF @ # None /\ @ > index THEN @ - 1
                ELSE @]
    ELSE s

\* TimelineWidget.get_selected_segment returns a segment (not None)
has_selected_segment(s) ==
    s.selected_segment # None
        /\ 0 <= s.selected_segment /\ s.selected_segment < Len(s.segments)

\* A faulty get_segment_at_position, which returns the last segment of the
\* list that contains the position.
get_segment_at_position_last(s, x) ==
    IF s.duration = 0 THEN None
    ELSE LET hits == {i \in 1..Len(s.segments) :
                         contains(s.segments[i], x * s.duration, total_width(s))}
         IN  IF hits = {} THEN None
             ELSE (CHOOSE i \in hits : \A j \in hits : i >= j) - 1

\* TimelineWidget.get_segment_at_position: the float position is
\* (x / total_width) * duration, compared exactly.
get_segment_at_position(s, x) ==
    IF s.duration = 0 THEN None
    ELSE LET hits == {i \in 1..Len(s.segments) :
                         contains(s.segments[i], x * s.duration, total_width(s))}
         IN  IF hits = {} THEN None
             ELSE (CHOOSE i \in hits : \A j \in hits : i <= j) - 1

\* int((x / total_width) * duration), x >= 0
position_at(s, x) == (x * s.duration) \div total_width(s)

(***************************************************************************)
(* The pixel of a time and the time of a pixel.  Both are floats in the    *)
(* code; here a float is the fraction num / den in lowest terms, and a     *)
(* computation is exact in floating point when its quotient is a binary    *)
(* fraction.                                                               *)
(***************************************************************************)
RECURSIVE GCD(_, _)
GCD(a, b) == IF b = 0 THEN a ELSE GCD(b, a % b)

\* num / den in lowest terms, den > 0
Frac(num, den) ==
    LET g == GCD(IF num < 0 THEN 0 - num ELSE num, den)
    IN  [num |-> num \div g, den |-> den \div g]

RECURSIVE IsPow2(_)
IsPow2(n) == n = 1 \/ (n > 1 /\ n % 2 = 0 /\ IsPow2(n \div 2))

\* paintEvent: pos_x = (position / duration) * total_width - scroll_offset
pos_x(s, position) ==
    Frac(position * total_width(s) - s.scroll_offset * s.duration, s.duration)

\* A faulty pointer formula, which leaves the scroll offset out.
position_of_pixel_unscrolled(s, px) ==
    LET q == Frac(px.num, px.den * total_width(s))
        g == GCD(s.duration, q.den)
    IN  Frac(q.num * (s.duration \div g), q.den \div g)

\* mousePressEvent and mouseMoveEvent for the pointer at the float pixel px:
\* x = px + scroll_offset, and (x / total_width) * duration before int().
position_of_pixel(s, px) ==
    LET x == Frac(px.num + s.scroll_offset * px.den, px.den)
        q == Frac(x.num, x.den * total_width(s))
        g == GCD(s.duration, q.den)
    IN  Frac(q.num * (s.duration \div g), q.den \div g)

\* The values int((x / total_width) * duration) may have for the pixel
\* pos_x of the time position (0 <= position <= duration).  The quotient
\* position / duration is rounded unless it is a binary fraction, and a
\* rounded product that should be the integer v may lie just below v, where
\* int() makes v - 1 of it.
pixel_round_trip(s, position) ==
    LET v == position_of_pixel(s, pos_x(s, position))
        exact == IsPow2(s.duration \div GCD(position, s.duration))
    IN  IF v.den = 1 /\ v.num > 0 /\ ~exact THEN {v.num - 1, v.num}
        ELSE {v.num \div v.den}

(***************************************************************************)
(* VideoAnnotator: the slots of the numeric editors and of the action box  *)
(***************************************************************************)
\* A faulty on_in_spin_changed, which refuses a start that makes the
\* selected segment overlap another segment.
on_in_spin_changed_validating(s, value) ==
    LET e == Enter(s, "on_in_spin_changed", value)
        i == e.selected_segment
    IN  IF i = None THEN Leave(e)
        ELSE IF i >= Len(e.segments) THEN Leave(Log(e, "IndexError", i))
        ELSE IF \E j \in 1..Len(e.segments) :
                    /\ j # i + 1
                    /\ overlaps_with([e.segments[i + 1] EXCEPT !.start = value],
                                     e.segments[j])
        THEN Leave(e)
        ELSE Leave(player_setPosition(
                 [e EXCEPT !.segments[i + 1].start = value, !.in_time = value],
                 value))

\* VideoAnnotator.on_in_spin_changed.  Indexing the list with a selection
\* that is no index of it raises IndexError: the slot ends there.
on_in_spin_changed(s, value) ==
    LET e == Enter(s, "on_in_spin_changed", value)
        i == e.selected_segment
    IN  IF i = None THEN Leave(e)
        ELSE IF i >= Len(e.segments) THEN Leave(Log(e, "IndexError", i))
        ELSE Leave(player_setPosition(
                 [e EXCEPT !.segments[i + 1].start = value, !.in_time = value],
                 value))

\* A faulty on_out_spin_changed, which edits the last segment of the list
\* when no segment is selected.
on_out_spin_changed_last(s, value) ==
    LET e == Enter(s, "on_out_spin_changed", value)
        i == IF e.selected_segment = None THEN Len(e.segments) - 1
             ELSE e.selected_segment
    IN  IF i < 0 THEN Leave(e)
        ELSE IF i >= Len(e.segments) THEN Leave(Log(e, "IndexError", i))
        ELSE Leave(player_setPosition(
                 [e EXCEPT !.segments[i + 1].end = value],
                 value))

\* VideoAnnotator.on_out_spin_changed
on_out_spin_changed(s, value) ==
    LET e == Enter(s, "on_out_spin_changed", value)
        i == e.selected_segment
    IN  IF i = None THEN Leave(e)
        ELSE IF i >= Len(e.segments) THEN Leave(Log(e, "IndexError", i))
        ELSE Leave(player_setPosition(
                 [e EXCEPT !.segments[i + 1].end = value],
                 value))

\* QSpinBox.setValue on in_spin: the value is kept within [0, maximum], and
\* valueChanged calls the slot when the value changed.
in_spin_setValue(s, v) ==
    LET c == Max(0, Min(v, s.in_spin_max))
    IN  IF c = s.in_spin_value THEN s
        ELSE on_in_spin_changed([s EXCEPT !.in_spin_value = c], c)

out_spin_setValue(s, v) ==
    LET c == Max(0, Min(v, s.out_spin_max))
    IN  IF c = s.out_spin_value THEN s
        ELSE on_out_spin_changed([s EXCEPT !.out_spin_value = c], c)

\* QSpinBox.setMaximum: a value above the new maximum is brought down to it.
in_spin_setMaximum(s, m) ==
    in_spin_setValue([s EXCEPT !.in_spin_max = m], s.in_spin_value)

out_spin_setMaximum(s, m) ==
    out_spin_setValue([s EXCEPT !.out_spin_max = m], s.out_spin_value)

\* QComboBox.findText: the index of the first item equal to text, or None.
findText(items, text) ==
    LET found == {i \in 1..Len(items) : items[i] = text}
    IN  IF found = {} THEN None
        ELSE (CHOOSE i \in found : \A j \in found : i <= j) - 1

\* QComboBox.currentText
currentText(s) ==
    IF s.action_combo_index = None THEN <<>>
    ELSE s.action_combo_items[s.action_combo_index + 1]

RECURSIVE on_action_changed(_, _)

\* The current index of the action box changes (by the user or by
\* setCurrentIndex): currentTextChanged calls the slot when the text changed.
action_combo_setCurrentIndex(s, index) ==
    LET old == currentText(s)
        s1 == [s EXCEPT !.action_combo_index = index]
    IN  IF currentText(s1) = old THEN s1
        ELSE on_action_changed(s1, currentText(s1))

\* QComboBox.setCurrentText on the (not editable) action box: the item with
\* that text becomes the current one; without such an item nothing happens.
action_combo_setCurrentText(s, text) ==
    LET i == findText(s.action_combo_items, text)
    IN  IF i = None THEN s ELSE action_combo_setCurrentIndex(s, i)

\* VideoAnnotator.on_action_changed
on_action_changed(s, new_action) ==
    LET e == Enter(s, "on_action_changed", new_action)
        i == e.selected_segment
        clean_action == strip(new_action)
    IN  IF i = None THEN Leave(e)
        ELSE IF startswith(new_action, <<FolderChar>>)
                    \/ startswith(new_action, <<RuleChar>>)
        THEN IF has_selected_segment(e)
             THEN Leave(action_combo_setCurrentText(
                      e, <<" ", " ">> \o e.segments[i + 1].action))
             ELSE Leave(e)
        ELSE IF i >= Len(e.segments) THEN Leave(Log(e, "IndexError", i))
        ELSE Leave([e EXCEPT
                 !.segments[i + 1].action = clean_action,
                 !.segments[i + 1].color = color_for(e.action_colors, clean_action)])

(***************************************************************************)
(* Selection                                                               *)
(***************************************************************************)
\* VideoAnnotator.on_segment_clicked, the slot of timeline.segmentClicked.
\* segment is the selected object: each step reads what the step before left.
on_segment_clicked(s, segment_index) ==
    LET e == Enter(s, "on_segment_clicked", segment_index)
        i == e.selected_segment
    IN  IF ~has_selected_segment(e) THEN Leave(e)
        ELSE LET s1 == action_combo_setCurrentText(
                           e, <<" ", " ">> \o e.segments[i + 1].action)
                 s2 == [s1 EXCEPT !.action_combo_enabled = TRUE]
                 s3 == in_spin_setValue(s2, s2.segments[i + 1].start)
                 s4 == out_spin_setValue(s3, s3.segments[i + 1].end)
             IN  Leave([s4 EXCEPT
                     !.in_spin_enabled = TRUE, !.out_spin_enabled = TRUE,
                     !.in_time = s4.segments[i + 1].start])

\* VideoAnnotator.on_selection_cleared, the slot of timeline.selectionCleared
on_selection_cleared(s) ==
    Leave([Enter(s, "on_selection_cleared", None) EXCEPT
        !.action_combo_enabled = FALSE,
        !.in_spin_enabled = FALSE, !.out_spin_enabled = FALSE])

\* A faulty select_segment, which takes len(segments) for an index of the
\* list.
select_segment_off_by_one(s, index) ==
    IF 0 <= index /\ index <= Len(s.segments)
    THEN on_segment_clicked(
             Log([s EXCEPT !.selected_segment = index], "segmentClicked", index),
             index)
    ELSE s

\* TimelineWidget.select_segment
select_segment(s, index) ==
    IF 0 <= index /\ index < Len(s.segments)
    THEN on_segment_clicked(
             Log([s EXCEPT !.selected_segment = index], "segmentClicked", index),
             index)
    ELSE s

(***************************************************************************)
(* Pointer events of the timeline                                          *)
(***************************************************************************)
\* A faulty mousePressEvent, which reports the position after the selection.
mousePressEvent_seeking_last(s, ex) ==
    LET e == Enter(s, "mousePressEvent", ex)
        x == ex + e.scroll_offset
        segment_idx == get_segment_at_position(e, x)
        s1 == [e EXCEPT !.dragging = TRUE]
        s2 == IF segment_idx # None
              THEN select_segment(s1, segment_idx)
              ELSE on_selection_cleared(
                       Log([s1 EXCEPT !.selected_segment = None],
                           "selectionCleared", None))
    IN  IF s2.duration > 0
        THEN Leave(seek(Log(s2, "positionChanged", position_at(s2, x)),
                        position_at(s2, x)))
        ELSE Leave(s2)

\* TimelineWidget.mousePressEvent with the left button at widget pixel ex
mousePressEvent(s, ex) ==
    LET e == Enter(s, "mousePressEvent", ex)
        x == ex + e.scroll_offset
        segment_idx == get_segment_at_position(e, x)
        s1 == [e EXCEPT !.dragging = TRUE]
        s2 == IF s1.duration > 0
              THEN seek(Log(s1, "positionChanged", position_at(s1, x)),
                        position_at(s1, x))
              ELSE s1
    IN  IF segment_idx # None
        THEN Leave(select_segment(s2, segment_idx))
        ELSE Leave(on_selection_cleared(
                 Log([s2 EXCEPT !.selected_segment = None],
                     "selectionCleared", None)))

\* A faulty mouseMoveEvent, which selects the segment under the pointer as
\* a press does.
mouseMoveEvent_selecting(s, ex) ==
    LET e == Enter(s, "mouseMoveEvent", ex)
        x == ex + e.scroll_offset
        position == Max(0, Min(position_at(e, x), e.duration))
        segment_idx == get_segment_at_position(e, x)
        s1 == IF e.dragging /\ e.duration > 0
              THEN seek(Log(e, "positionChanged", position), position)
              ELSE e
    IN  Leave([s1 EXCEPT !.selected_segment = segment_idx])

\* TimelineWidget.mouseMoveEvent
mouseMoveEvent(s, ex) ==
    LET e == Enter(s, "mouseMoveEvent", ex)
        x == ex + e.scroll_offset
        position == Max(0, Min(position_at(e, x), e.duration))
    IN  IF e.dragging /\ e.duration > 0
        THEN Leave(seek(Log(e, "positionChanged", position), position))
        ELSE Leave(e)

\* TimelineWidget.mouseReleaseEvent with the left button
mouseReleaseEvent(s) ==
    Leave([Enter(s, "mouseReleaseEvent", None) EXCEPT !.dragging = FALSE])

(***************************************************************************)
(* IN and OUT                                                              *)
(***************************************************************************)
\* VideoAnnotator.set_in
set_in(s) ==
    LET e == Enter(s, "set_in", None)
    IN  Leave(set_in_marker([e EXCEPT !.in_time = e.player_position],
                            e.player_position))

\* A faulty set_out, which forgets the pending IN time when it refuses.
set_out_forgetting_in(s) ==
    LET e == Enter(s, "set_out", None)
        out_time == e.player_position
        action == currentText(e)
        color == color_for(e.action_colors, strip(action))
    IN  IF e.in_time = None THEN Leave(e)
        ELSE IF out_time <= e.in_time THEN Leave([e EXCEPT !.in_time = None])
        ELSE Leave([add_segment(e, e.in_time, out_time, action, color)
                       EXCEPT !.in_time = None])

\* VideoAnnotator.set_out
set_out(s) ==
    LET e == Enter(s, "set_out", None)
        s1 == e
        out_time == e.player_position
        action == currentText(s1)
        color == color_for(s1.action_colors, strip(action))
        success == add_segment_returns(
                       s1.segments, Segment(s1.in_time, out_time, action, color))
        s2 == add_segment(s1, s1.in_time, out_time, action, color)
    IN  IF s1.in_time = None THEN Leave(s1)
        ELSE IF out_time <= s1.in_time THEN Leave(s1)
        ELSE IF ~success THEN Leave(s2)
        ELSE Leave([s2 EXCEPT !.in_time = None])

\* VideoAnnotator.remove_selected_segment
remove_selected_segment(s) ==
    LET e == Enter(s, "remove_selected_segment", None)
    IN  IF e.selected_segment = None THEN Leave(e)
        ELSE Leave([remove_segment(e, e.selected_segment) EXCEPT
                 !.in_time = None, !.action_combo_enabled = FALSE])

(***************************************************************************)
(* Project files.  A file is [exists, rows], a row the sequence of its     *)
(* fields as csv.reader yields them and csv.writer takes them.             *)
(***************************************************************************)
NoFile == [exists |-> FALSE, rows |-> <<>>]

\* The rows save_project_to_csv writes, in store order.
RECURSIVE csv_rows(_)
csv_rows(segs) ==
    IF Len(segs) = 0 THEN <<>>
    ELSE <<  <<ms_to_time_string(segs[1].start), ms_to_time_string(segs[1].end),
               segs[1].action>>  >> \o csv_rows(Tail(segs))

\* VideoAnnotator.save_project_to_csv: open() or a write may fail (io_ok is
\* FALSE), which the handler prints and swallows; the file is then left as
\* it was.
save_project_to_csv(s, io_ok) ==
    IF io_ok
    THEN [s EXCEPT !.csv_file = [exists |-> TRUE, rows |-> csv_rows(s.segments)]]
    ELSE Log(s, "print CSV save failed", None)

\* VideoAnnotator.save_project
save_project(s, io_ok) ==
    LET e == Enter(s, "save_project", None)
    IN  IF e.filename # ""
        THEN Leave(Log(save_project_to_csv(e, io_ok), "QMessageBox.information", None))
        ELSE Leave(Log(e, "QMessageBox.warning", None))

\* The loop of load_project over the rows.
RECURSIVE load_rows(_, _)
load_rows(s, rows) ==
    IF Len(rows) = 0 THEN s
    ELSE LET row == rows[1]
             technique == row[3]
         IN  IF Len(row) >= 3
             THEN load_rows(
                      add_segment(s, time_string_to_ms(row[1]),
                                  time_string_to_ms(row[2]), technique,
                                  color_for(s.action_colors, technique)),
                      Tail(rows))
             ELSE load_rows(s, Tail(rows))

\* VideoAnnotator.load_project: open() of a missing file raises before the
\* list is cleared.
load_project(s, file) ==
    LET e == Enter(s, "load_project", file)
    IN  IF ~file.exists THEN Leave(Log(e, "print load error", None))
        ELSE Leave(load_rows([e EXCEPT !.segments = <<>>], file.rows))

(***************************************************************************)
(* Opening a project, and the duration the player reports afterwards       *)
(***************************************************************************)
\* The width of the timeline widget on screen (self.width()).
WidgetWidth == 650

\* VideoAnnotator.on_scrollbar_changed
on_scrollbar_changed(s, value) ==
    Leave(set_scroll_offset(Enter(s, "on_scrollbar_changed", value), value))

\* QScrollBar.setRange(0, m): the value is kept within the range, and
\* valueChanged calls the slot when it changed.
scrollbar_setRange(s, m) ==
    LET s1 == [s EXCEPT !.scrollbar_max = m]
    IN  IF s.scrollbar_value <= m THEN s1
        ELSE on_scrollbar_changed([s1 EXCEPT !.scrollbar_value = m], m)

\* TimelineWidget.set_duration
set_duration(s, d) ==
    LET s1 == [s EXCEPT !.duration = d]
    IN  IF d > 0
        THEN scrollbar_setRange(s1, Max(0, total_width(s1) - WidgetWidth))
        ELSE s1

\* VideoAnnotator.on_scale_changed, the slot of scale_spin.valueChanged;
\* value is in pixels per second, PX_PER_SEC in tenths of them.
on_scale_changed(s, value) ==
    LET e == Enter(s, "on_scale_changed", value)
        s1 == [e EXCEPT !.PX_PER_SEC = value * 10]
        s2 == IF s1.duration > 0 THEN set_duration(s1, s1.duration) ELSE s1
    IN  Leave(Log(s2, "save_scale_config", None))

\* player.setSource(...): the player starts on the new medium, at position 0
\* and with no duration known yet.
player_setSource(s) ==
    LET s1 == [s EXCEPT !.player_duration = 0, !.player_position = 0]
    IN  IF s.player_position = 0 THEN s1 ELSE update_timeline(s1, 0)

\* VideoAnnotator.open_project with a video picked; sibling is the project
\* file with the video's base name.
open_project_mp4(s, sibling) ==
    LET e == Enter(s, "open_project", sibling)
        s1 == player_setSource([e EXCEPT !.filename = "video.mp4"])
        s2 == [s1 EXCEPT !.duration_hooks = @ \cup {"mp4"}]
    IN  IF sibling.exists THEN Leave(load_project(s2, sibling)) ELSE Leave(s2)

\* VideoAnnotator.open_project with a project file picked; has_video says
\* whether the video with its base name exists.
open_project_csv(s, file, has_video) ==
    LET e == Enter(s, "open_project", file)
        s1 == load_project(e, file)
        s2 == player_setSource([s1 EXCEPT !.filename = "video.mp4"])
    IN  IF has_video
        THEN Leave([s2 EXCEPT !.duration_hooks = @ \cup {"csv"}])
        ELSE Leave(s1)

\* The on_duration_changed closures open_project connected, called with the
\* duration the player reports.
on_duration_changed(s, d) ==
    LET e == Enter([s EXCEPT !.player_duration = d], "on_duration_changed", d)
        s1 == IF d > 0 /\ e.duration_hooks # {} THEN set_duration(e, d) ELSE e
    IN  IF d > 0 /\ "mp4" \in e.duration_hooks
        THEN Leave(out_spin_setMaximum(in_spin_setMaximum(s1, d), d))
        ELSE Leave(s1)

(***************************************************************************)
(* Bounds and inputs                                                       *)
(***************************************************************************)
\* Times are 0..MaxTime milliseconds; the video lasts MaxTime.
MaxTime == 2

Times == 0..MaxTime
VideoDuration == MaxTime

\* Widget pixels of pointer events (the last one lies beyond the timeline's
\* 400 pixels, inside the widget).
PointerXs == {0, 100, 200, 400, 600}

Jump == <<"J", "u", "m", "p">>
Spin == <<"S", "p", "i", "n">>
Axel == <<"A", "x", "e", "l">>
Camel == <<"C", "a", "m", "e", "l">>

\* actions.csv with one category, with two, and missing.
OneCategory ==
    [exists |-> TRUE,
     rows |-> << [category |-> Jump, technique |-> Axel, color |-> "#00FF00"] >>]

TwoCategories ==
    [exists |-> TRUE,
     rows |-> << [category |-> Jump, technique |-> Axel, color |-> "#00FF00"],
                 [category |-> Spin, technique |-> Camel, color |-> "#0000FF"] >>]

\* Project files found on disk.
FileRow(start, end, action) ==
    <<ms_to_time_string(start), ms_to_time_string(end), action>>

File(rows) == [exists |-> TRUE, rows |-> rows]

(***************************************************************************)
(* The initial state: VideoAnnotator.__init__ with the catalog file given  *)
(***************************************************************************)
SpinMax == 999999
ScrollbarMax == 1000

InitApp(catalog) ==
    /\ duration = 0
    /\ current_position = 0
    /\ segments = <<>>
    /\ selected_segment = None
    /\ in_marker = None
    /\ scroll_offset = 0
    /\ dragging = FALSE
    /\ PX_PER_SEC = 75
    /\ filename = ""
    /\ in_time = None
    /\ action_colors = load_actions_colors(catalog)
    /\ action_combo_items = load_actions_items(catalog)
    /\ action_combo_index = 0
    /\ action_combo_enabled = FALSE
    /\ in_spin_value = 0
    /\ in_spin_max = SpinMax
    /\ in_spin_enabled = FALSE
    /\ out_spin_value = 0
    /\ out_spin_max = SpinMax
    /\ out_spin_enabled = FALSE
    /\ scrollbar_value = 0
    /\ scrollbar_max = ScrollbarMax
    /\ duration_hooks = {}
    /\ player_position = 0
    /\ player_duration = 0
    /\ csv_file = NoFile
    /\ trace = <<>>

\* The application as constructed; no time code is being converted on its own.
InitWith(catalog) ==
    /\ InitApp(catalog)
    /\ tc_position_ms = None
    /\ tc_time_str = <<>>
    /\ tc_total_ms = None
    /\ tc_raised = FALSE
    /\ actions_csv = catalog

(***************************************************************************)
(* The events: one user action or player notification each.  The sets an   *)
(* event draws its input from, and the number of segments a run may store, *)
(* are the parameters of the specifications below.                         *)
(***************************************************************************)
Do(s, max_segments) == Len(s.segments) <= max_segments /\ Commit(s)

\* The user opens a video; a project file of siblings, or the one saved,
\* lies beside it.
OpenVideo(siblings, max_segments) ==
    \E sibling \in siblings \cup {csv_file} :
        Do(open_project_mp4(World, sibling), max_segments)

\* The user opens a project file, whose video exists or not.
OpenCsv(files, videos, max_segments) ==
    \E file \in files \cup {f \in {csv_file} : f.exists}, has_video \in videos :
        Do(open_project_csv(World, file, has_video), max_segments)

\* The player reports the duration of the medium it was given.
DurationChanged ==
    /\ filename # ""
    /\ player_duration = 0
    /\ Commit(on_duration_changed(World, VideoDuration))

\* Playback moves the position: player.positionChanged.
PositionChanged(positions) ==
    \E p \in positions :
        /\ p <= player_duration
        /\ p # player_position
        /\ Commit(update_timeline([World EXCEPT !.player_position = p], p))

\* The player reports one of several durations for the medium.
DurationReported(durations) ==
    \E d \in durations :
        /\ filename # ""
        /\ player_duration = 0
        /\ Commit(on_duration_changed(World, d))

\* The user sets the scale spin box, which shows int(PX_PER_SEC), to another
\* value of its range 1..100.
ChangeScale(values) ==
    \E value \in values :
        /\ 1 <= value /\ value <= 100
        /\ value # PX_PER_SEC \div 10
        /\ Commit(on_scale_changed(World, value))

\* The user moves the scrollbar to another value of its range.
ScrollTo(values) ==
    \E value \in values :
        /\ 0 <= value /\ value <= scrollbar_max
        /\ value # scrollbar_value
        /\ Commit(on_scrollbar_changed([World EXCEPT !.scrollbar_value = value],
                                       value))

ClickSetIn == Commit(set_in(World))

ClickSetOut(max_segments) == Do(set_out(World), max_segments)

ClickRemove == Commit(remove_selected_segment(World))

ClickSave(oks) == \E io_ok \in oks : Commit(save_project(World, io_ok))

MousePress(xs) == \E ex \in xs : Commit(mousePressEvent(World, ex))

MouseMove(xs) == \E ex \in xs : Commit(mouseMoveEvent(World, ex))

MouseRelease == Commit(mouseReleaseEvent(World))

\* The user changes the value of an enabled spin box.
EditInSpin(values) ==
    \E v \in values :
        /\ in_spin_enabled
        /\ v # in_spin_value /\ v <= in_spin_max
        /\ Commit(in_spin_setValue(World, v))

EditOutSpin(values) ==
    \E v \in values :
        /\ out_spin_enabled
        /\ v # out_spin_value /\ v <= out_spin_max
        /\ Commit(out_spin_setValue(World, v))

\* The user picks another entry of the enabled action box.
PickAction ==
    \E i \in 0..(Len(action_combo_items) - 1) :
        /\ action_combo_enabled
        /\ i # action_combo_index
        /\ Commit(action_combo_setCurrentIndex(World, i))

(***************************************************************************)
(* Spec: an editing session.  The user opens a video, plays it, marks IN   *)
(* and OUT, clicks on the timeline, edits the bounds of the selected       *)
(* segment and removes it.                                                 *)
(***************************************************************************)
\* The number of segments a session stores.
MaxSegments == 2

Init == InitWith(OneCategory)

Next ==
    \/ OpenVideo({NoFile}, MaxSegments)
    \/ DurationChanged
    \/ PositionChanged(Times)
    \/ ClickSetIn
    \/ ClickSetOut(MaxSegments)
    \/ ClickRemove
    \/ MousePress(PointerXs)
    \/ EditInSpin(Times)
    \/ EditOutSpin(Times)

Spec == Init /\ [][Next]_vars

(***************************************************************************)
(* Properties.  What a handler did is read from its log: the log of a      *)
(* state is that of the handler that led to it, and trace' in an action    *)
(* formula that of the handler taking the step.                            *)
(***************************************************************************)
\* The handler that logged tr is the one named name.
Ran(tr, name) == tr # <<>> /\ tr[1].ev = name

\* The log tr has the event ev with the argument arg.
Logged(tr, ev, arg) == \E k \in 1..Len(tr) : tr[k].ev = ev /\ tr[k].arg = arg

\* The places of the event ev in the log tr.
Places(tr, ev) == {k \in 1..Len(tr) : tr[k].ev = ev}

\* The candidate (start, end) overlaps a segment of segs.
Overlapping(segs, start, end) ==
    \E i \in 1..Len(segs) :
        overlaps_with(Segment(start, end, <<>>, DefaultColor), segs[i])

\* C2: whenever the candidate passed to add_segment overlaps a segment of
\* the list, add_segment returns False, and the segment list and
\* selected_segment are as before the call.  Stated of the call made in any
\* state a session reaches, for every candidate.
C2_add_segment_rejects_overlap ==
    \A start \in Times, end \in Times :
        LET r == add_segment(World, start, end, Axel, DefaultColor)
        IN  Overlapping(segments, start, end) =>
                /\ r.trace = << [ev |-> "add_segment", arg |-> 0, depth |-> 0] >>
                /\ r.segments = segments
                /\ r.selected_segment = selected_segment

\* A set_out whose candidate add_segment refused, with a segment selected.
C2_witness ==
    /\ Ran(trace, "set_out")
    /\ Logged(trace, "add_segment", 0)
    /\ selected_segment # None
    /\ Len(segments) = MaxSegments

\* C4: in every reachable state every segment of the list has start < end.
C4_start_before_end ==
    \A i \in 1..Len(segments) : segments[i].start < segments[i].end

\* The timeline signals about the selection.
SelectionEvents(tr) == Places(tr, "segmentClicked") \cup Places(tr, "selectionCleared")

\* What a press at widget pixel ex in the state s hits (an index or None).
Hit(s, ex) == get_segment_at_position(s, ex + s.scroll_offset)

\* The selection part of C5: a press on a segment selects it and emits
\* segmentClicked(index); any other press clears the selection and emits
\* selectionCleared.
PressSelects ==
    LET hit == Hit(World, trace'[1].arg)
    IN  IF hit # None
        THEN /\ selected_segment' = hit
             /\ Logged(trace', "segmentClicked", hit)
             /\ Places(trace', "selectionCleared") = {}
        ELSE /\ selected_segment' = None
             /\ Places(trace', "selectionCleared") # {}
             /\ Places(trace', "segmentClicked") = {}

\* The press reports exactly one positionChanged, before any selection event.
PressSeeksOnce ==
    /\ Cardinality(Places(trace', "positionChanged")) = 1
    /\ \A p \in Places(trace', "positionChanged"), q \in SelectionEvents(trace') :
           p < q

RejectedSetOut ==
    /\ Ran(trace', "set_out")
    /\ in_time # None
    /\ \/ player_position <= in_time
       \/ Overlapping(segments, in_time, player_position)

\* C10: a rejected set_out stores no segment and leaves the segment list,
\* selected_segment and the pending IN time as they were before the call.
C10_rejected_set_out_changes_nothing ==
    [][RejectedSetOut =>
           /\ segments' = segments
           /\ selected_segment' = selected_segment
           /\ in_time' = in_time]_vars

\* A set_out refused for its OUT position, which is not after the pending
\* IN time, with a segment stored.
C10_witness ==
    /\ trace = << [ev |-> "set_out", arg |-> None, depth |-> 1] >>
    /\ in_time # None
    /\ player_position <= in_time
    /\ segments # <<>>

(***************************************************************************)
(* SpecOverlap: a session that stores one segment more, and edits the      *)
(* bounds of the segments it clicks on, without removing any.              *)
(***************************************************************************)
MoreSegments == MaxSegments + 1

NextOverlap ==
    \/ OpenVideo({NoFile}, MoreSegments)
    \/ DurationChanged
    \/ PositionChanged(Times)
    \/ ClickSetIn
    \/ ClickSetOut(MoreSegments)
    \/ MousePress({0, 400})
    \/ EditInSpin(Times)
    \/ EditOutSpin(Times)

SpecOverlap == Init /\ [][NextOverlap]_vars

\* The state is the one an add_segment call that returned True left: it is
\* the last thing the handler logged.
AfterAdd == trace # <<>> /\ trace[Len(trace)].ev = "add_segment"
                /\ trace[Len(trace)].arg = 1

\* C1 as claimed: in every state reached immediately after an add_segment
\* call that returned True, no two distinct segments of the list overlap.
C1_no_overlap_after_add ==
    AfterAdd =>
        \A i \in 1..Len(segments), j \in 1..Len(segments) :
            i # j => ~overlaps_with(segments[i], segments[j])

\* C1, amended: in every state reached immediately after an add_segment call
\* that returned True, the segment the call appended (the last of the list)
\* overlaps no other segment of the list.
C1_added_segment_overlaps_none ==
    AfterAdd =>
        \A i \in 1..(Len(segments) - 1) :
            /\ ~overlaps_with(segments[Len(segments)], segments[i])
            /\ ~overlaps_with(segments[i], segments[Len(segments)])

\* A successful add to a list whose two older segments overlap each other,
\* as numeric edits left them.
C1_witness ==
    /\ AfterAdd
    /\ Len(segments) = 3
    /\ overlaps_with(segments[1], segments[2])

(***************************************************************************)
(* SpecStore: the timeline's segment store called directly, as add_segment *)
(* (start, end), remove_segment(index) and select_segment(index) with any  *)
(* arguments, indices out of range included.  The call is logged first.    *)
(***************************************************************************)
Indices == (0 - 1)..MoreSegments

StoreAdd ==
    \E start \in Times, end \in Times :
        Do(add_segment(Log(World, "call add_segment", <<start, end>>),
                       start, end, TechniqueItem(Axel),
                       color_for(action_colors, Axel)),
           MoreSegments)

StoreRemove ==
    \E index \in Indices :
        Commit(remove_segment(Log(World, "remove_segment", index), index))

StoreSelect ==
    \E index \in Indices :
        Commit(select_segment(Log(World, "select_segment", index), index))

NextStore == StoreAdd \/ StoreRemove \/ StoreSelect

SpecStore == Init /\ [][NextStore]_vars

\* The selection after remove_segment(index), as C3 states it.
FixedUp(selected, index) ==
    IF selected = index THEN None
    ELSE IF selected # None /\ selected > index THEN selected - 1
    ELSE selected

\* C3: for a valid index i, remove_segment(i) deletes exactly the segment at
\* i, and then selected_segment is None if it was i, one less if it was
\* greater than i, and unchanged if it was less than i or None; a selected
\* segment other than the one removed is still the selected one afterwards.
C3_remove_fixes_selection ==
    [][\A i \in 0..(Len(segments) - 1) :
           Ran(trace', "remove_segment") /\ trace'[1].arg = i =>
               /\ Len(segments') = Len(segments) - 1
               /\ \A k \in 1..i : segments'[k] = segments[k]
               /\ \A k \in (i + 1)..Len(segments') : segments'[k] = segments[k + 1]
               /\ selected_segment' = FixedUp(selected_segment, i)
               /\ (selected_segment # None /\ selected_segment # i) =>
                      /\ selected_segment' # None
                      /\ segments'[selected_segment' + 1]
                             = segments[selected_segment + 1]]_vars

\* remove_segment(0) on three segments with the last one selected: two are
\* left, and the selection moved down to index 1.
C3_witness ==
    /\ trace = << [ev |-> "remove_segment", arg |-> 0, depth |-> 0] >>
    /\ Len(segments) = 2
    /\ selected_segment = 1

(***************************************************************************)
(* SpecTimeCode: the two conversions of time codes on their own.  A        *)
(* position is drawn at the start, ms_to_time_string makes its text, and   *)
(* time_string_to_ms reads the text back.  The positions are those around  *)
(* the carries of the fields, up to MaxHours hours (3 digits of hours).    *)
(***************************************************************************)
MaxHours == 100

SampleHours == {0, 1, 9, 10, 99, MaxHours}
SampleMinutes == {0, 1, 9, 10, 59}
SampleSeconds == {0, 1, 9, 10, 59}
SampleMillis == {0, 1, 9, 10, 99, 100, 500, 999}

SamplePositions ==
    {((h * 60 + mi) * 60 + sec) * 1000 + ms :
        h \in SampleHours, mi \in SampleMinutes,
        sec \in SampleSeconds, ms \in SampleMillis}

appvars ==
    <<duration, current_position, segments, selected_segment, in_marker,
      scroll_offset, dragging, PX_PER_SEC, filename, in_time,
      action_colors, action_combo_items, action_combo_index,
      action_combo_enabled, in_spin_value, in_spin_max, in_spin_enabled,
      out_spin_value, out_spin_max, out_spin_enabled, scrollbar_value,
      scrollbar_max, duration_hooks, player_position, player_duration,
      csv_file, trace>>

InitTimeCode ==
    /\ InitApp(OneCategory)
    /\ tc_position_ms \in SamplePositions \cup {3723456}
    /\ tc_time_str = <<>>
    /\ tc_total_ms = None
    /\ tc_raised = FALSE
    /\ actions_csv = OneCategory

FormatTime ==
    /\ tc_time_str = <<>>
    /\ tc_time_str' = ms_to_time_string(tc_position_ms)
    /\ UNCHANGED <<appvars, tc_position_ms, tc_total_ms, tc_raised, actions_csv>>

ParseTime ==
    /\ tc_time_str # <<>>
    /\ tc_total_ms = None
    /\ tc_total_ms' = time_string_to_ms(tc_time_str)
    /\ tc_raised' = time_string_to_ms_raises(tc_time_str)
    /\ UNCHANGED <<appvars, tc_position_ms, tc_time_str, actions_csv>>

NextTimeCode == FormatTime \/ ParseTime

SpecTimeCode == InitTimeCode /\ [][NextTimeCode]_vars

OverlapFile == File(<< FileRow(0, 2, Axel), FileRow(1, 2, Axel) >>)

ShortRowFile ==
    File(<< <<ms_to_time_string(0), ms_to_time_string(1)>>,
            FileRow(1, 2, Axel),
            <<>> >>)

NextProject ==
    \/ OpenVideo({NoFile}, MaxSegments)
    \/ OpenCsv({OverlapFile, ShortRowFile}, {TRUE, FALSE}, MaxSegments)
    \/ DurationChanged
    \/ PositionChanged(Times)
    \/ ClickSetIn
    \/ ClickSetOut(MaxSegments)
    \/ ClickSave({TRUE, FALSE})

SpecProject == Init /\ [][NextProject]_vars

\* One segment for every row of at least 3 fields, in row order, coloured
\* from the catalog colors.
RECURSIVE SegmentsOfRows(_, _)
SegmentsOfRows(rows, colors) ==
    IF rows = <<>> THEN <<>>
    ELSE (IF Len(rows[1]) >= 3
          THEN << Segment(time_string_to_ms(rows[1][1]),
                          time_string_to_ms(rows[1][2]),
                          rows[1][3], color_for(colors, rows[1][3])) >>
          ELSE <<>>)
         \o SegmentsOfRows(Tail(rows), colors)

\* C8: load_project produces one segment for every row that has at least 3
\* fields, in row order, without validating that the loaded segments do not
\* overlap each other; rows with fewer than 3 fields contribute no segment.
C8_load_trusts_the_file ==
    [][\A k \in Places(trace', "load_project") :
           trace'[k].arg.exists =>
               segments' = SegmentsOfRows(trace'[k].arg.rows, action_colors)]_vars

\* The segments of segs with the catalog color of their action.
Recolored(segs, colors) ==
    [i \in 1..Len(segs) |->
        [segs[i] EXCEPT !.color = color_for(colors, segs[i].action)]]

\* C7: for any contents of the segment list, save_project_to_csv(path)
\* followed by load_project(path) yields the same number of segments in the
\* same order, each with the same start, end and action, and with the
\* catalog color of its action.  Stated of the two calls made in any state a
\* session reaches.
C7_save_then_load ==
    LET saved == save_project_to_csv(World, TRUE)
        loaded == load_project(saved, saved.csv_file)
    IN  loaded.segments = Recolored(segments, action_colors)

(***************************************************************************)
(* SpecLabels: a session with a catalog of two categories, in which the    *)
(* user marks segments, clicks on them and picks entries of the action     *)
(* box: techniques, category headers and the separator.                    *)
(***************************************************************************)
InitLabels == InitWith(TwoCategories)

NextLabels ==
    \/ OpenVideo({NoFile}, MaxSegments)
    \/ DurationChanged
    \/ PositionChanged(Times)
    \/ ClickSetIn
    \/ ClickSetOut(MaxSegments)
    \/ MousePress({0, 400})
    \/ PickAction

SpecLabels == InitLabels /\ [][NextLabels]_vars

\* The entry is a category header or a separator.
IsHeading(text) ==
    startswith(text, <<FolderChar>>) \/ startswith(text, <<RuleChar>>)

\* C9: when a segment is selected and the action entry changes to a category
\* header or separator entry, the selected segment's action and color are
\* left unchanged and the action selector is restored to the entry of the
\* segment's technique (for a segment labelled with a technique of the
\* catalog).
C9_heading_is_rejected ==
    [][(/\ Ran(trace', "on_action_changed")
        /\ IsHeading(trace'[1].arg)
        /\ has_selected_segment(World)
        /\ strip(segments[selected_segment + 1].action) \in DOMAIN action_colors)
       => /\ segments' = segments
          /\ currentText(World)' =
                 TechniqueItem(strip(segments[selected_segment + 1].action))]_vars

\* C11: in the state immediately after set_out successfully creates a
\* segment the timeline's in_marker is None, and it stays None until the
\* next set_in.
C11_in_marker_cleared_on_commit ==
    [][/\ (Ran(trace', "set_out") /\ Logged(trace', "add_segment", 1))
              => in_marker' = None
       /\ (in_marker = None /\ ~Ran(trace', "set_in")) => in_marker' = None]_vars


\* ---------------------------------------------------------------------
\* Parsing typed time codes: the text is drawn from well-formed and
\* malformed samples "H:M:S", "M:S" and "S", and time_string_to_ms is
\* applied to it.
HourTexts ==
    { <<"0">>, <<"1">>, <<"a", "b">>, <<"x">>, <<>>, <<"1", ".", "5">>,
      <<" ", "2">> }

MinuteTexts == { <<"0", "0">>, <<"3", "0">>, <<"x">>, <<"3", "O">> }

SecondTexts ==
    { <<"0", "1", ".", "0", "0", "0">>, <<"3", "0">>, <<"z", "z">>,
      <<"1", ",", "5">> }

SampleTexts ==
    {h \o <<":">> \o mi \o <<":">> \o sec :
        h \in HourTexts, mi \in MinuteTexts, sec \in SecondTexts}
    \cup {mi \o <<":">> \o sec : mi \in MinuteTexts, sec \in SecondTexts}
    \cup SecondTexts

InitTimeText ==
    /\ InitApp(OneCategory)
    /\ tc_position_ms = None
    /\ tc_time_str \in SampleTexts
    /\ tc_total_ms = None
    /\ tc_raised = FALSE
    /\ actions_csv = OneCategory

NextTimeText == ParseTime

SpecTimeText == InitTimeText /\ [][NextTimeText]_vars

\* The hour or the minute field of the text is not a number.
NonNumericField(time_str) ==
    LET parts == split(strip(time_str), ":")
    IN  \/ Len(parts) = 3 /\ (~IntOk(parts[1]) \/ ~IntOk(parts[2]))
        \/ Len(parts) = 2 /\ ~IntOk(parts[1])

\* C12: time_string_to_ms applied to a text whose hour or minute field is
\* non-numeric fails with a format error; it does not return a default
\* value such as 0.
C12_malformed_time_fails_loudly ==
    (tc_total_ms # None /\ NonNumericField(tc_time_str)) => tc_raised


\* C13: when writing the project file fails, save_project shows a failure
\* dialog and never the dialog that reports a successful save.
C13_save_failure_is_surfaced ==
    [][(Ran(trace', "save_project")
        /\ Places(trace', "print CSV save failed") # {})
           => /\ Places(trace', "QMessageBox.information") = {}
              /\ Places(trace', "QMessageBox.warning") # {}]_vars


\* ---------------------------------------------------------------------
\* Dragging: presses, moves and releases of the pointer over the timeline,
\* with segments marked by IN and OUT.  A move may lie left of the widget
\* or right of the timeline's last pixel.
DragXs == {0 - 50, 0, 200, 400, 600}

NextDrag ==
    \/ OpenVideo({NoFile}, MaxSegments)
    \/ DurationChanged
    \/ PositionChanged(Times)
    \/ ClickSetIn
    \/ ClickSetOut(MaxSegments)
    \/ MousePress({0, 200, 400})
    \/ MouseMove(DragXs)
    \/ MouseRelease

SpecDrag == Init /\ [][NextDrag]_vars

\* C14: every pointer move of a press-drag sequence, with a duration
\* known, reports a seek position through positionChanged, and no mouse
\* move or mouse release changes the segment list, a segment's start, end,
\* action or color, or selected_segment.
C14_dragging_never_mutates_segments ==
    [][/\ (Ran(trace', "mouseMoveEvent") /\ dragging /\ duration > 0)
              => Places(trace', "positionChanged") # {}
       /\ (Ran(trace', "mouseMoveEvent") \/ Ran(trace', "mouseReleaseEvent"))
              => /\ segments' = segments
                 /\ selected_segment' = selected_segment]_vars

\* A move of a drag has reported a position while a segment is selected.
C14_witness ==
    /\ Ran(trace, "mouseMoveEvent")
    /\ Places(trace, "positionChanged") # {}
    /\ dragging
    /\ selected_segment # None
    /\ Len(segments) = MaxSegments


\* C15: every time the timeline reports for a pointer pixel through
\* positionChanged, on a press as well as on a move of a drag, lies in
\* [0, duration].
C15_reported_times_are_clamped ==
    [][(Ran(trace', "mousePressEvent") \/ Ran(trace', "mouseMoveEvent"))
           => \A k \in Places(trace', "positionChanged") :
                  /\ trace'[k].arg >= 0
                  /\ trace'[k].arg <= duration']_vars


\* The interval (start, end) shares more than a boundary with a segment of
\* segs.
Intersects(segs, start, end) ==
    \E i \in 1..Len(segs) : start < segs[i].end /\ segs[i].start < end

\* The interval (start, end) begins where a segment of segs ends, or ends
\* where one begins.
Adjacent(segs, start, end) ==
    \E i \in 1..Len(segs) : start = segs[i].end \/ end = segs[i].start

\* C16: add_segment returns True and appends the candidate when start < end,
\* the candidate's start equals an existing segment's end or its end equals
\* an existing segment's start, and it overlaps no segment of the list.
C16_adjacency_is_legal ==
    [][\A start \in Times, end \in Times :
           (/\ Ran(trace', "call add_segment")
            /\ trace'[1].arg = <<start, end>>
            /\ start < end
            /\ Adjacent(segments, start, end)
            /\ ~Intersects(segments, start, end))
               => /\ Logged(trace', "add_segment", 1)
                  /\ segments' = Append(segments,
                                        Segment(start, end, TechniqueItem(Axel),
                                                color_for(action_colors, Axel)))
                  /\ selected_segment' = selected_segment]_vars

\* A segment was added that begins where the segment before it ends.
C16_witness ==
    /\ Ran(trace, "call add_segment")
    /\ Logged(trace, "add_segment", 1)
    /\ Len(segments) = 2
    /\ segments[1].start < segments[1].end
    /\ segments[2].start < segments[2].end
    /\ segments[1].end = segments[2].start


\* C17: remove_segment(i) and select_segment(i) with i < 0 or
\* i >= len(segments) leave the segment list and selected_segment unchanged
\* and emit no segmentClicked; select_segment(i) with a valid i sets
\* selected_segment to i and emits segmentClicked(i).
C17_out_of_bounds_is_a_no_op ==
    [][\A i \in Indices :
           /\ (/\ Ran(trace', "remove_segment") \/ Ran(trace', "select_segment")
               /\ trace'[1].arg = i
               /\ (i < 0 \/ i >= Len(segments)))
                  => /\ segments' = segments
                     /\ selected_segment' = selected_segment
                     /\ Places(trace', "segmentClicked") = {}
           /\ (/\ Ran(trace', "select_segment")
               /\ trace'[1].arg = i
               /\ 0 <= i /\ i < Len(segments))
                  => /\ selected_segment' = i
                     /\ Logged(trace', "segmentClicked", i)
                     /\ Cardinality(Places(trace', "segmentClicked")) = 1]_vars

\* select_segment was called with the length of a list that has a
\* selection: an index just past the end.
C17_witness ==
    /\ Ran(trace, "select_segment")
    /\ trace[1].arg = Len(segments)
    /\ Len(segments) = 2
    /\ selected_segment = 1
    /\ Places(trace, "segmentClicked") = {}


\* ---------------------------------------------------------------------
\* The viewport: videos of one and of two minutes, the scale spin box and
\* the scrollbar, with presses and drags of the pointer.
ViewDurations == {60000, 120000}

Scales == {1, 7, 10, 20}

ScrollValues == {0, 50, 250, 500, 1000, 1750}

ViewXs == {0, 300, 649}

NextView ==
    \/ OpenVideo({NoFile}, MaxSegments)
    \/ DurationReported(ViewDurations)
    \/ ChangeScale(Scales)
    \/ ScrollTo(ScrollValues)
    \/ MousePress(ViewXs)
    \/ MouseMove(ViewXs)
    \/ MouseRelease

SpecView == Init /\ [][NextView]_vars

\* The largest scroll offset: max(0, total_width_px - viewport_width).
MaxScroll == Max(0, total_width(World) - WidgetWidth)

\* C18: after a scale change (on_scale_changed) or a duration change
\* (set_duration) the timeline's scroll_offset lies within
\* [0, max(0, total_width_px - viewport_width)].
C18_scroll_offset_is_reclamped ==
    [][(Ran(trace', "on_scale_changed") \/ Ran(trace', "on_duration_changed"))
           => (0 <= scroll_offset /\ scroll_offset <= MaxScroll)']_vars


\* Times mapped to a pixel and back.
ViewTimes == {0, 1, 30000, 45000, 59999, 60000, 100001, 120000}

\* C19: for a duration > 0, any scale and scroll offset, and a time t in
\* [0, duration], the pixel (t / duration) * total_width - scroll_offset
\* mapped back with ((pixel + scroll_offset) / total_width) * duration is t
\* within 1 ms; it is 30000 for t = 30000 with duration 60000, scale 10 and
\* scroll offset 0.
C19_pixel_round_trip ==
    duration > 0 =>
        /\ \A t \in ViewTimes :
               t <= duration =>
                   \A r \in pixel_round_trip(World, t) : r - t <= 1 /\ t - r <= 1
        /\ (duration = 60000 /\ PX_PER_SEC = 100 /\ scroll_offset = 0)
               => pixel_round_trip(World, 30000) = {30000}

\* A two-minute video at 10 px/s is scrolled by 250 pixels; the time 1 ms,
\* whose pixel is left of the widget, comes back as 0 or as 1.
C19_witness ==
    /\ duration = 120000
    /\ PX_PER_SEC = 100
    /\ scroll_offset = 250
    /\ pos_x(World, 1).num < 0
    /\ pixel_round_trip(World, 1) = {0, 1}


\* The digit of d (0..9), and a number below 100 and below 1000 written
\* with two and with three digits.
DigitOf(d) == SubSeq(<<"0", "1", "2", "3", "4", "5", "6", "7", "8", "9">>, d + 1, d + 1)

TwoDigits(n) == DigitOf(n \div 10) \o DigitOf(n % 10)

ThreeDigits(n) == DigitOf(n \div 100) \o TwoDigits(n % 100)

\* "HH:MM:SS.mmm" of C20 for ms below 1000 hours.
TimeCodeOf(ms) ==
    LET HH == ms \div 3600000
        MM == (ms % 3600000) \div 60000
        SS == (ms % 60000) \div 1000
        mmm == ms % 1000
    IN  (IF HH < 100 THEN TwoDigits(HH) ELSE ThreeDigits(HH)) \o <<":">>
            \o TwoDigits(MM) \o <<":">> \o TwoDigits(SS) \o <<".">>
            \o ThreeDigits(mmm)

\* C20: ms_to_time_string(ms) for a non-negative integer ms is
\* "HH:MM:SS.mmm" with HH = ms div 3600000 (at least 2 digits, not wrapped
\* at 24), MM = (ms mod 3600000) div 60000, SS = (ms mod 60000) div 1000 and
\* mmm = ms mod 1000, each zero-padded; ms_to_time_string(3723456) is
\* "01:02:03.456".
C20_format_exactness ==
    tc_time_str # <<>> =>
        /\ tc_time_str = TimeCodeOf(tc_position_ms)
        /\ tc_position_ms = 3723456 =>
               tc_time_str = <<"0", "1", ":", "0", "2", ":", "0", "3", ".",
                               "4", "5", "6">>

\* A position of more than 24 hours has been formatted.
C20_witness ==
    /\ tc_position_ms = ((99 * 60 + 59) * 60 + 59) * 1000 + 999
    /\ tc_time_str = <<"9", "9", ":", "5", "9", ":", "5", "9", ".", "9", "9", "9">>
    /\ tc_total_ms = None


\* C21: when add_segment returns True the new segment is the last element
\* of the list, the segments present before keep their positions and their
\* field values (the list is not sorted by time), and selected_segment is
\* unchanged.
C21_successful_add_appends_only ==
    [][(Ran(trace', "call add_segment") /\ Logged(trace', "add_segment", 1))
           => /\ Len(segments') = Len(segments) + 1
              /\ segments'[Len(segments')].start = trace'[1].arg[1]
              /\ segments'[Len(segments')].end = trace'[1].arg[2]
              /\ segments'[Len(segments')].action = TechniqueItem(Axel)
              /\ \A i \in 1..Len(segments) : segments'[i] = segments[i]
              /\ selected_segment' = selected_segment]_vars

\* A segment was added behind a segment that starts later, with a
\* selection in place.
C21_witness ==
    /\ Ran(trace, "call add_segment")
    /\ Logged(trace, "add_segment", 1)
    /\ Len(segments) = 2
    /\ segments[2].start < segments[1].start
    /\ segments[2].start < segments[2].end
    /\ selected_segment = 0


\* C22: with a segment selected, on_in_spin_changed(v) sets that segment's
\* start to v and on_out_spin_changed(v) sets its end to v, whether or not
\* the segment then overlaps another one; no other segment and no position
\* of the list is changed.
C22_numeric_edits_are_unvalidated ==
    [][/\ (Ran(trace', "on_in_spin_changed") /\ selected_segment # None)
              => /\ segments' = [segments EXCEPT
                                    ![selected_segment + 1].start = trace'[1].arg]
                 /\ selected_segment' = selected_segment
       /\ (Ran(trace', "on_out_spin_changed") /\ selected_segment # None)
              => /\ segments' = [segments EXCEPT
                                    ![selected_segment + 1].end = trace'[1].arg]
                 /\ selected_segment' = selected_segment]_vars

\* The start of the selected segment was edited into another segment.
C22_witness ==
    /\ Ran(trace, "on_in_spin_changed")
    /\ Len(segments) = 2
    /\ selected_segment = 1
    /\ segments[2].start = trace[1].arg
    /\ segments[1].start < segments[1].end
    /\ segments[2].start < segments[1].end
    /\ segments[1].start < segments[2].end


\* The segment seg contains the time of the pixel x (scroll offset
\* included): start <= (x / total_width) * duration <= end.
Covers(seg, x) ==
    /\ seg.start * total_width(World) <= x * duration
    /\ x * duration <= seg.end * total_width(World)

\* C23: get_segment_at_position returns the smallest index whose segment
\* satisfies start <= time <= end for the time of the pixel, so that at a
\* boundary two segments share the one added earlier wins; it returns None
\* when no segment contains the time or when duration is 0.
C23_first_match_in_store_order ==
    \A x \in PointerXs :
        LET r == get_segment_at_position(World, x)
            hits == {i \in 0..(Len(segments) - 1) : Covers(segments[i + 1], x)}
        IN  IF duration = 0 \/ hits = {}
            THEN r = None
            ELSE r \in hits /\ \A i \in hits : r <= i

\* A press on the boundary 1 ms, shared by the segment added first, which
\* starts there, and the one added second, which ends there, has selected
\* the first.
C23_witness ==
    /\ Ran(trace, "mousePressEvent")
    /\ trace[1].arg = 200
    /\ duration = 2
    /\ Len(segments) = 2
    /\ Covers(segments[1], 200)
    /\ Covers(segments[2], 200)
    /\ segments[1].start = 1 /\ segments[1].end = 2
    /\ segments[2].start = 0 /\ segments[2].end = 1
    /\ selected_segment = 0


\* The handlers of user input and of the player's position updates.
InputHandlers ==
    {"mousePressEvent", "on_in_spin_changed", "on_out_spin_changed",
     "on_action_changed", "update_timeline"}

\* C24: each handler (mouse press, spin-box change, action change, player
\* position update) runs to completion before another one starts: none of
\* them is invoked while a handler is still executing.
C24_no_handler_reentrancy ==
    \A k \in 1..Len(trace) :
        trace[k].ev \in InputHandlers => trace[k].depth = 1


\* ---------------------------------------------------------------------
\* Loading the action catalog: actions.csv is missing or holds up to
\* MaxRows rows, and load_actions_from_csv fills the empty action box.
MaxRows == 3

CatalogRows ==
    [category : {Jump, Spin}, technique : {Axel, Camel},
     color : {"#00FF00", "#0000FF"}]

Catalogs ==
    {[exists |-> FALSE, rows |-> <<>>]}
        \cup {[exists |-> TRUE, rows |-> rows] :
                 rows \in UNION {[1..n -> CatalogRows] : n \in 0..MaxRows}}

\* VideoAnnotator.load_actions_from_csv on the action box and action_colors
load_actions_from_csv(s, catalog) ==
    Leave([Enter(s, "load_actions_from_csv", None) EXCEPT
        !.action_combo_items = @ \o load_actions_items(catalog),
        !.action_colors = load_actions_colors(catalog)])

\* The window before load_actions_from_csv: an action box without items.
InitCatalog ==
    /\ InitApp([exists |-> TRUE, rows |-> <<>>])
    /\ tc_position_ms = None
    /\ tc_time_str = <<>>
    /\ tc_total_ms = None
    /\ tc_raised = FALSE
    /\ actions_csv \in Catalogs

LoadActions ==
    /\ trace = <<>>
    /\ Commit(load_actions_from_csv(World, actions_csv))

NextCatalog == LoadActions

SpecCatalog == InitCatalog /\ [][NextCatalog]_vars

\* Row k of rows opens a category: it is the first row, or its category
\* differs from that of the row before.
Opens(rows, k) == k = 1 \/ rows[k].category # rows[k - 1].category

\* The place of the technique of row k in the flattened list: one entry
\* for each row up to k, one header for each row up to k that opens a
\* category, and one separator for each of these but the first.
PlaceOf(rows, k) ==
    LET heads == Cardinality({j \in 1..k : Opens(rows, j)})
    IN  k + heads + (heads - 1)

\* The list flattened from rows, as C25 describes it.
Flattened(rows, items) ==
    /\ Len(items) = (IF Len(rows) = 0 THEN 0 ELSE PlaceOf(rows, Len(rows)))
    /\ \A k \in 1..Len(rows) :
           LET p == PlaceOf(rows, k)
           IN  /\ items[p] = <<" ", " ">> \o rows[k].technique
               /\ Opens(rows, k) =>
                      /\ items[p - 1] = <<FolderChar, " ">> \o rows[k].category
                      /\ k > 1 => items[p - 2] = Repeat(RuleChar, 20)

\* C25: loading the catalog rows in order gives a list with a header
\* exactly where a row's category differs from the previous row's, a
\* separator before every header but the first, each technique after its
\* category's header in row order, and every technique mapped to its row's
\* color.
C25_catalog_flattening ==
    (Ran(trace, "load_actions_from_csv") /\ actions_csv.exists) =>
        /\ Flattened(actions_csv.rows, action_combo_items)
        /\ \A k \in 1..Len(actions_csv.rows) :
               color_for(action_colors, actions_csv.rows[k].technique)
                   = actions_csv.rows[k].color


\* Row k is the last row of rows that names its technique.
LastNaming(rows, k) ==
    \A j \in 1..Len(rows) : rows[j].technique = rows[k].technique => j <= k

\* C25, amended: the flattened list is as C25 describes it, and every
\* technique is mapped to the color of the last row that names it, which is
\* its own row's color when no later row repeats the technique.
C25_last_row_colors_a_technique ==
    (Ran(trace, "load_actions_from_csv") /\ actions_csv.exists) =>
        /\ Flattened(actions_csv.rows, action_combo_items)
        /\ \A k \in 1..Len(actions_csv.rows) :
               LastNaming(actions_csv.rows, k) =>
                   color_for(action_colors, actions_csv.rows[k].technique)
                       = actions_csv.rows[k].color

\* A catalog of two categories was loaded in which a later row repeats a
\* technique with another color.
C25_witness ==
    /\ Ran(trace, "load_actions_from_csv")
    /\ actions_csv.exists
    /\ Len(actions_csv.rows) = 3
    /\ actions_csv.rows[1].category # actions_csv.rows[3].category
    /\ actions_csv.rows[1].technique = actions_csv.rows[3].technique
    /\ actions_csv.rows[1].color # actions_csv.rows[3].color
    /\ action_colors[actions_csv.rows[1].technique] = actions_csv.rows[3].color
    /\ Len(action_combo_items) >= 6


\* ---------------------------------------------------------------------
\* Reloading: the user marks and selects segments and then opens a project
\* file, empty or of one segment, which replaces the segment list.
EmptyFile == File(<<>>)

NextReload ==
    \/ OpenVideo({NoFile}, MaxSegments)
    \/ OpenCsv({EmptyFile, ShortRowFile}, {TRUE, FALSE}, MaxSegments)
    \/ DurationChanged
    \/ PositionChanged(Times)
    \/ ClickSetIn
    \/ ClickSetOut(MaxSegments)
    \/ MousePress({0, 400})

SpecReload == Init /\ [][NextReload]_vars

\* C26: in every reachable state, also after a project reload that
\* replaces the segment list, selected_segment is None or an index of the
\* segment list.
C26_selection_is_valid ==
    selected_segment = None
        \/ (0 <= selected_segment /\ selected_segment < Len(segments))


\* C27: in every reachable state no segment of the store has a category
\* header or a separator entry as its action; every segment carries a
\* technique label of the catalog.
C27_only_techniques_label_segments ==
    \A i \in 1..Len(segments) :
        /\ ~IsHeading(segments[i].action)
        /\ strip(segments[i].action) \in DOMAIN action_colors


\* C28: once set_in has recorded an IN time, in_time keeps it through every
\* press, move and release of the pointer on the timeline, on empty area or
\* on a segment.
C28_pending_in_survives_clicks ==
    [][(/\ \/ Ran(trace', "mousePressEvent")
           \/ Ran(trace', "mouseMoveEvent")
           \/ Ran(trace', "mouseReleaseEvent")
        /\ in_time # None)
           => in_time' = in_time]_vars


\* The last position the handler of the log tr requested of the player, or
\* None when it requested none.
LastRequested(tr) ==
    LET ps == Places(tr, "setPosition")
    IN  IF ps = {} THEN None
        ELSE tr[CHOOSE k \in ps : \A j \in ps : j <= k].arg

\* C29: after a press of the left button at pixel x has been handled, with
\* every handler it triggers, the last position requested of the player is
\* the time of x, also when the press lands on a segment.
C29_click_seeks_to_clicked_time ==
    [][(Ran(trace', "mousePressEvent") /\ duration > 0)
           => LastRequested(trace')
                  = ((trace'[1].arg + scroll_offset) * duration)
                        \div total_width(World)]_vars


\* C30: whenever selected_segment is None, on_in_spin_changed,
\* on_out_spin_changed, on_action_changed and remove_selected_segment change
\* no segment's start, end, action or color, nor the length of the list.
C30_no_edit_without_selection ==
    selected_segment = None =>
        /\ \A v \in Times :
               /\ on_in_spin_changed(World, v).segments = segments
               /\ on_out_spin_changed(World, v).segments = segments
        /\ \A i \in 1..Len(action_combo_items) :
               on_action_changed(World, action_combo_items[i]).segments = segments
        /\ remove_selected_segment(World).segments = segments

\* The user has changed the OUT spin box, left enabled by the removal of
\* the selected segment, while a segment is stored and none is selected.
C30_witness ==
    /\ Ran(trace, "on_out_spin_changed")
    /\ selected_segment = None
    /\ Len(segments) = 1
    /\ out_spin_value # segments[1].end

====
